---- MODULE Spec2Model ----
(***************************************************************************)
(* HouseGenerator (src/js/house-generator.js): houses laid out along road  *)
(* centerlines, with a collision test against the buffers of the other     *)
(* roads.                                                                  *)
(*                                                                         *)
(* Geometry.  The source works in longitude/latitude through turf.js.  The *)
(* model works in a local planar frame in metres: a point is <<x, y>>, x   *)
(* east and y north, bearings in degrees clockwise from north.  Roads are  *)
(* rectilinear polylines with integer vertices and template outlines are   *)
(* rectangles (or degenerate outlines) with integer corners, so distances, *)
(* bearings, interpolation, rotation and the buffer test are exact in      *)
(* integer arithmetic.  Raw template outlines have an even minX + maxX, so *)
(* the centre (minX + maxX) / 2 of normalizeHouseGeometry is an integer.   *)
(* Indices are 1-based in sequences; the index and roadIndex FIELDS keep   *)
(* the source's 0-based values.                                            *)
(*                                                                         *)
(* Specifications.  Spec: calls made one after the other, each generation  *)
(* followed step by step.  SpecReplay: the same call made twice.           *)
(* SpecLoading: loadHouseTypes one loop iteration at a time, with a second *)
(* invocation that starts while the first awaits a fetch.                  *)
(* SpecInterpolation: interpolatePositionAtDistance on centerlines with    *)
(* repeated points.  SpecAnySpacing: one generation under every kind of    *)
(* edgeSpacing option, negative ones included.  SpecBadRoad: requests with *)
(* a LineString feature that has no coordinates.  SpecWideCatalog: a       *)
(* catalog with a narrow and a wide outline on a longer road.              *)
(* SpecTwoRequests: two clicks on Generate Homes, the second during the    *)
(* load of the first.  SpecTwoRoads: one generation over two roads that    *)
(* both get houses.  SpecWatcher: the analysis-file watcher of             *)
(* src/unnamed/part_003, with its child process and its re-run timer.      *)
(***************************************************************************)
EXTENDS Integers, Sequences, FiniteSets, TLC

VARIABLES
  houseTypes,         \* this.houseTypes: the template catalog
  roads,              \* this.roads
  allRoadGeometries,  \* this.allRoadGeometries
  generatedHouses,    \* this.generatedHouses
  edgeSpacing,        \* this.edgeSpacing
  roadOffset,         \* this.roadOffset
  pc,                 \* position inside generateHousesAlongRoads / generateHouses
  roadIndex,          \* forEach index of generateHouses (0-based)
  side,               \* loop variable of generateHousesAlongRoad
  tempHouses,         \* calculateHousePositions: templates selected so far
  totalWidthNeeded,   \* calculateHousePositions: running budget
  positions,          \* calculateHousePositions: its result for (roadIndex, side)
  houses,             \* generateHousesAlongRoad: houses of the current road
  calls,              \* number of generation calls made
  lastCall,           \* history: the most recent call, its options and what
                      \* its generation has produced so far
  replay,             \* history: the first of two runs and the Math.random
                      \* outcomes of the current run
  loading,            \* loadHouseTypes: the loop index i of each of its
                      \* invocations, and the files it has fetched
  running,            \* watcher: let running
  queued,             \* watcher: let queued
  proc,               \* watcher: number of annotate-latest child processes
                      \* that have been spawned and have not exited
  timers,             \* watcher: number of pending 50 ms timers
  trigger,            \* watcher: the trigger of the run started last
  events,             \* watcher: number of add/change events so far
  owed                \* history: an event has arrived during a run and no
                      \* run has started since

\* the variables of the analysis-file watcher
wvars == <<running, queued, proc, timers, trigger, events, owed>>

vars == <<houseTypes, roads, allRoadGeometries, generatedHouses, edgeSpacing,
          roadOffset, pc, roadIndex, side, tempHouses, totalWidthNeeded,
          positions, houses, calls, lastCall, replay, loading, wvars>>

\* what the steps of a generation leave alone: the history variables, the
\* loop indices of the loader's invocations and the watcher
hvars == <<lastCall, replay, loading, wvars>>

\* the variables of the house generator
gvars == <<houseTypes, roads, allRoadGeometries, generatedHouses, edgeSpacing,
           roadOffset, pc, roadIndex, side, tempHouses, totalWidthNeeded,
           positions, houses, calls, lastCall, replay, loading>>

---------------------------------------------------------------------------
(* Bounds of the model *)

\* the longest road the requests contain, in metres
MaxRoadLength == 21
\* how many generateHousesAlongRoads calls a behaviour makes
MaxGenerations == 2
\* how many templates the selection loop is followed for when nothing ends it
MaxSelected == 4
\* how many add/change events the watcher receives
MaxEvents == 8

---------------------------------------------------------------------------
(* Program constants *)

DefaultEdgeSpacing == 5
DefaultRoadOffset == 10
\* "Leave 5m at each end" / "Start exactly 5m from beginning"
EndClearance == 5
\* the buffer generateHousesAlongRoad passes to checkHouseRoadCollision
DefaultBufferMeters == 6
BufferPrimary == 8
BufferSecondary == 6
BufferTertiary == 4

---------------------------------------------------------------------------
(* Arithmetic and planar geometry (turf.js on rectilinear input) *)

Abs(x) == IF x < 0 THEN -x ELSE x
Max2(a, b) == IF a >= b THEN a ELSE b
Min2(a, b) == IF a <= b THEN a ELSE b

SeqMin(s, k) == CHOOSE m \in {s[i][k] : i \in 1..Len(s)} :
                  \A i \in 1..Len(s) : m <= s[i][k]
SeqMax(s, k) == CHOOSE m \in {s[i][k] : i \in 1..Len(s)} :
                  \A i \in 1..Len(s) : m >= s[i][k]

\* turf.distance between two points of a rectilinear polyline
Distance(p, q) == Abs(q[1] - p[1]) + Abs(q[2] - p[2])

\* turf.bearing: degrees in (-180, 180], 0 for coincident points
Bearing(p, q) ==
  IF q[1] > p[1] THEN 90
  ELSE IF q[1] < p[1] THEN -90
  ELSE IF q[2] < p[2] THEN 180
  ELSE 0

\* unit vector of a bearing that is a multiple of 90 degrees
Dir(b) ==
  LET a == b % 360
  IN  IF a = 0 THEN <<0, 1>>
      ELSE IF a = 90 THEN <<1, 0>>
      ELSE IF a = 180 THEN <<0, -1>>
      ELSE <<-1, 0>>

\* turf.destination(point, dist, bearing)
Destination(p, dist, b) == <<p[1] + dist * Dir(b)[1], p[2] + dist * Dir(b)[2]>>

\* turf.along on the two-point line p -> q
Along(p, q, dist) == Destination(p, dist, Bearing(p, q))

---------------------------------------------------------------------------
(* Template catalog: parseHouseGeoJSON, createFallbackHouse *)

FallbackWidths == <<8, 12, 6>>
FallbackLengths == <<10, 8, 14>>

CreateFallbackHouse(typeId) ==
  LET width == IF typeId \in 1..3 THEN FallbackWidths[typeId] ELSE 8
      length == IF typeId \in 1..3 THEN FallbackLengths[typeId] ELSE 10
  IN  [type |-> typeId, width |-> width, length |-> length,
       geometry |-> << <<0, 0>>, <<width, 0>>, <<width, length>>,
                       <<0, length>>, <<0, 0>> >>,
       bounds |-> [minX |-> 0, minY |-> 0, maxX |-> width, maxY |-> length]]

CalculateBounds(coordinates) ==
  [minX |-> SeqMin(coordinates, 1), minY |-> SeqMin(coordinates, 2),
   maxX |-> SeqMax(coordinates, 1), maxY |-> SeqMax(coordinates, 2)]

NormalizeHouseGeometry(coordinates, bounds) ==
  LET centerX == (bounds.minX + bounds.maxX) \div 2
      frontY == bounds.minY
  IN  [i \in 1..Len(coordinates) |->
         <<coordinates[i][1] - centerX, coordinates[i][2] - frontY>>]

\* lines 78-89: the outline of the first feature; a LineString is closed
OutlineOf(feature) ==
  IF feature.gtype = "LineString"
  THEN LET c == feature.coordinates
       IN  IF c[1] # c[Len(c)] THEN Append(c, c[1]) ELSE c
  ELSE feature.coordinates

ParseHouseGeoJSON(geojson, typeId) ==
  IF Len(geojson.features) = 0 THEN CreateFallbackHouse(typeId)
  ELSE LET houseFeature == geojson.features[1]
       IN  IF houseFeature.gtype \notin {"LineString", "Polygon"}
           THEN CreateFallbackHouse(typeId)
           ELSE LET coordinates == OutlineOf(houseFeature)
                    bounds == CalculateBounds(coordinates)
                IN  [type |-> typeId,
                     width |-> bounds.maxX - bounds.minX,
                     length |-> bounds.maxY - bounds.minY,
                     geometry |-> NormalizeHouseGeometry(coordinates, bounds),
                     bounds |-> bounds]

\* one iteration of the loop of loadHouseTypes: a failed fetch, or a parse
\* that throws (coordinates[0][0] of a LineString without positions), is
\* caught and replaced by the fallback
LoadOne(file, typeId) ==
  IF file.ok /\ ~(Len(file.data.features) > 0
                  /\ file.data.features[1].gtype = "LineString"
                  /\ Len(file.data.features[1].coordinates) = 0)
  THEN ParseHouseGeoJSON(file.data, typeId)
  ELSE CreateFallbackHouse(typeId)

LoadHouseTypesResult(files) == [i \in 1..3 |-> LoadOne(files[i], i)]

---------------------------------------------------------------------------
(* Road length and interpolation *)

RECURSIVE CumulativeAt(_, _)
\* cumulativeDistances[i] of calculateHousePositions (1-based i)
CumulativeAt(coordinates, i) ==
  IF i <= 1 THEN 0
  ELSE CumulativeAt(coordinates, i - 1)
         + Distance(coordinates[i - 1], coordinates[i])

CumulativeDistances(coordinates) ==
  [i \in 1..Len(coordinates) |-> CumulativeAt(coordinates, i)]

CalculateRoadLength(coordinates) == CumulativeAt(coordinates, Len(coordinates))

\* faulty variant: the comparison of line 354 is strict
SegmentIndexStrict(cumulativeDistances, targetDistance) ==
  LET hits == {i \in 2..Len(cumulativeDistances) :
                 cumulativeDistances[i] > targetDistance}
  IN  IF hits = {} THEN 1
      ELSE (CHOOSE i \in hits : \A j \in hits : i <= j) - 1

\* lines 352-358: the first i with cumulativeDistances[i] >= targetDistance
\* gives segment i - 1; segment 0 when there is none.  The result is the
\* 1-based number of the segment's first point.
SegmentIndex(cumulativeDistances, targetDistance) ==
  LET hits == {i \in 2..Len(cumulativeDistances) :
                 cumulativeDistances[i] >= targetDistance}
  IN  IF hits = {} THEN 1
      ELSE (CHOOSE i \in hits : \A j \in hits : i <= j) - 1

\* ok = FALSE stands for the null result of line 360
InterpolatePositionAtDistance(coordinates, cumulativeDistances, targetDistance) ==
  LET seg == SegmentIndex(cumulativeDistances, targetDistance)
  IN  IF seg > Len(coordinates) - 1
      THEN [ok |-> FALSE, lng |-> 0, lat |-> 0, bearing |-> 0, houseAngle |-> 0]
      ELSE LET segmentStart == cumulativeDistances[seg]
               segmentEnd == cumulativeDistances[seg + 1]
               bearing == Bearing(coordinates[seg], coordinates[seg + 1])
           IN  IF segmentEnd - segmentStart = 0
               THEN [ok |-> TRUE, lng |-> coordinates[seg][1],
                     lat |-> coordinates[seg][2],
                     bearing |-> bearing, houseAngle |-> bearing + 90]
               ELSE LET pt == Along(coordinates[seg], coordinates[seg + 1],
                                    targetDistance - segmentStart)
                    IN  [ok |-> TRUE, lng |-> pt[1], lat |-> pt[2],
                         bearing |-> bearing, houseAngle |-> bearing + 90]

---------------------------------------------------------------------------
(* calculateHousePositions, after its selection loop *)

\* "Start exactly 5m from beginning"
StartDistance == 5

RECURSIVE CurrentDistanceNoSpacing(_, _)
\* faulty variant: the next position adds the width only
CurrentDistanceNoSpacing(temp, k) ==
  IF k <= 1 THEN StartDistance
  ELSE CurrentDistanceNoSpacing(temp, k - 1) + temp[k - 1].width

RECURSIVE CurrentDistanceAt(_, _)
\* currentDistance when the forEach of lines 323-338 reaches tempHouses[k]
CurrentDistanceAt(temp, k) ==
  IF k <= 1 THEN StartDistance
  ELSE CurrentDistanceAt(temp, k - 1) + temp[k - 1].width + edgeSpacing

\* lines 320-340: one slot per selected template whose position is not null
CalculateHousePositions(coordinates, sd, temp) ==
  LET cum == CumulativeDistances(coordinates)
      slot(k) ==
        LET d == CurrentDistanceAt(temp, k)
            p == InterpolatePositionAtDistance(coordinates, cum, d)
        IN  [ok |-> p.ok, lng |-> p.lng, lat |-> p.lat, bearing |-> p.bearing,
             houseAngle |-> p.houseAngle, side |-> sd, distance |-> d,
             houseType |-> temp[k], index |-> k - 1]
  IN  SelectSeq([k \in 1..Len(temp) |-> slot(k)], LAMBDA s : s.ok)

---------------------------------------------------------------------------
(* createHouseAtPosition, transformHouseGeometryGeo *)

\* a local point (localX, localY) lies localY along the house bearing and
\* localX along the bearing + 90 degrees
TransformHouseGeometryGeo(geometry, centerLng, centerLat, bearing) ==
  [i \in 1..Len(geometry) |->
     <<centerLng + geometry[i][2] * Dir(bearing)[1]
                 + geometry[i][1] * Dir(bearing + 90)[1],
       centerLat + geometry[i][2] * Dir(bearing)[2]
                 + geometry[i][1] * Dir(bearing + 90)[2]>>]

\* faulty variant: the orientation turns the same way on both sides
CreateHouseSameTurn(position, houseType, rIndex, houseIndex, sideMultiplier) ==
  LET offsetBearing == position.houseAngle
                         + (IF sideMultiplier > 0 THEN 0 ELSE 180)
      offsetPoint == Destination(<<position.lng, position.lat>>,
                                 roadOffset, offsetBearing)
      houseOrientation == position.bearing + 90
  IN  [id |-> <<rIndex>> \o houseIndex,
       type |-> houseType.type,
       lng |-> offsetPoint[1],
       lat |-> offsetPoint[2],
       bearing |-> houseOrientation,
       width |-> houseType.width,
       length |-> houseType.length,
       geometry |-> TransformHouseGeometryGeo(houseType.geometry,
                      offsetPoint[1], offsetPoint[2], houseOrientation),
       roadIndex |-> rIndex,
       houseIndex |-> houseIndex,
       side |-> IF sideMultiplier > 0 THEN "right" ELSE "left"]

\* faulty variant: the id leaves out the road index
CreateHouseIdWithoutRoad(position, houseType, rIndex, houseIndex, sideMultiplier) ==
  LET offsetBearing == position.houseAngle
                         + (IF sideMultiplier > 0 THEN 0 ELSE 180)
      offsetPoint == Destination(<<position.lng, position.lat>>,
                                 roadOffset, offsetBearing)
      houseOrientation == position.bearing
                            + (IF sideMultiplier > 0 THEN 90 ELSE -90)
  IN  [id |-> houseIndex,
       type |-> houseType.type,
       lng |-> offsetPoint[1],
       lat |-> offsetPoint[2],
       bearing |-> houseOrientation,
       width |-> houseType.width,
       length |-> houseType.length,
       geometry |-> TransformHouseGeometryGeo(houseType.geometry,
                      offsetPoint[1], offsetPoint[2], houseOrientation),
       roadIndex |-> rIndex,
       houseIndex |-> houseIndex,
       side |-> IF sideMultiplier > 0 THEN "right" ELSE "left"]

\* lines 410-444
CreateHouseAtPosition(position, houseType, rIndex, houseIndex, sideMultiplier) ==
  LET offsetBearing == position.houseAngle
                         + (IF sideMultiplier > 0 THEN 0 ELSE 180)
      offsetPoint == Destination(<<position.lng, position.lat>>,
                                 roadOffset, offsetBearing)
      houseOrientation == position.bearing
                            + (IF sideMultiplier > 0 THEN 90 ELSE -90)
  IN  [id |-> <<rIndex>> \o houseIndex,
       type |-> houseType.type,
       lng |-> offsetPoint[1],
       lat |-> offsetPoint[2],
       bearing |-> houseOrientation,
       width |-> houseType.width,
       length |-> houseType.length,
       geometry |-> TransformHouseGeometryGeo(houseType.geometry,
                      offsetPoint[1], offsetPoint[2], houseOrientation),
       roadIndex |-> rIndex,
       houseIndex |-> houseIndex,
       side |-> IF sideMultiplier > 0 THEN "right" ELSE "left"]

---------------------------------------------------------------------------
(* checkHouseRoadCollision *)

\* faulty variant: the tertiary case falls through to the default
BufferMetersTertiaryDefault(road, defaultBufferMeters) ==
  IF road.Layer # ""
  THEN IF road.Layer = "ROAD_PRIMARY" THEN BufferPrimary
       ELSE IF road.Layer = "ROAD_SECONDARY" THEN BufferSecondary
       ELSE defaultBufferMeters
  ELSE defaultBufferMeters

\* lines 538-553: the buffer of one road, by its Layer tag ("" is no tag)
BufferMeters(road, defaultBufferMeters) ==
  IF road.Layer # ""
  THEN IF road.Layer = "ROAD_PRIMARY" THEN BufferPrimary
       ELSE IF road.Layer = "ROAD_SECONDARY" THEN BufferSecondary
       ELSE IF road.Layer = "ROAD_TERTIARY" THEN BufferTertiary
       ELSE defaultBufferMeters
  ELSE defaultBufferMeters

\* squared distance between the bounding box of ring and the segment p-q;
\* exact for the rectangles and rectilinear segments of the model
BoxSegmentDist2(ring, p, q) ==
  LET dx == Max2(0, Max2(Min2(p[1], q[1]) - SeqMax(ring, 1),
                         SeqMin(ring, 1) - Max2(p[1], q[1])))
      dy == Max2(0, Max2(Min2(p[2], q[2]) - SeqMax(ring, 2),
                         SeqMin(ring, 2) - Max2(p[2], q[2])))
  IN  dx * dx + dy * dy

\* turf.booleanIntersects(housePolygon, turf.buffer(roadLine, bufferMeters)):
\* some point of the polygon is within bufferMeters of the polyline
IntersectsBuffer(ring, coordinates, bufferMeters) ==
  \E k \in 1..(Len(coordinates) - 1) :
     BoxSegmentDist2(ring, coordinates[k], coordinates[k + 1])
       <= bufferMeters * bufferMeters

\* turf.polygon throws on a ring of fewer than 4 positions (line 525)
HousePolygonThrows(house) == Len(house.geometry) + 1 < 4

\* a feature whose geometry has a coordinates member; reading .length of
\* the missing member (lines 220-221, 556) throws a TypeError
HasCoordinates(road) == "coordinates" \in DOMAIN road

\* turf.lineString throws on fewer than 2 positions (line 556)
RoadLineThrows(road) ==
  ~HasCoordinates(road) \/ Len(road.coordinates) < 2

\* faulty variant: a road whose line cannot be built ends the test, as if the
\* outer catch took its exception
CheckHouseRoadCollisionOuterCatch(house, defaultBufferMeters, excludeRoadIndex) ==
  IF Len(allRoadGeometries) = 0 THEN FALSE
  ELSE IF HousePolygonThrows(house) THEN FALSE
  ELSE \E i \in 1..Len(allRoadGeometries) :
         /\ i - 1 # excludeRoadIndex
         /\ \A j \in 1..i :
               j - 1 # excludeRoadIndex => ~RoadLineThrows(allRoadGeometries[j])
         /\ IntersectsBuffer(Append(house.geometry, house.geometry[1]),
                             allRoadGeometries[i].coordinates,
                             BufferMeters(allRoadGeometries[i],
                                          defaultBufferMeters))

\* faulty variant: the road the house is placed along is tested like the others
CheckHouseRoadCollisionNoExclusion(house, defaultBufferMeters, excludeRoadIndex) ==
  IF Len(allRoadGeometries) = 0 THEN FALSE
  ELSE IF HousePolygonThrows(house) THEN FALSE
  ELSE \E i \in 1..Len(allRoadGeometries) :
         /\ ~RoadLineThrows(allRoadGeometries[i])
         /\ IntersectsBuffer(Append(house.geometry, house.geometry[1]),
                             allRoadGeometries[i].coordinates,
                             BufferMeters(allRoadGeometries[i],
                                          defaultBufferMeters))

CheckHouseRoadCollision(house, defaultBufferMeters, excludeRoadIndex) ==
  IF Len(allRoadGeometries) = 0 THEN FALSE
  ELSE IF HousePolygonThrows(house) THEN FALSE
  ELSE \E i \in 1..Len(allRoadGeometries) :
         /\ i - 1 # excludeRoadIndex
         /\ ~RoadLineThrows(allRoadGeometries[i])
         /\ IntersectsBuffer(Append(house.geometry, house.geometry[1]),
                             allRoadGeometries[i].coordinates,
                             BufferMeters(allRoadGeometries[i],
                                          defaultBufferMeters))

\* faulty variant: the houses are numbered by the forEach index of the survivors
PlaceHousesRenumbered(slots, rIndex, sd) ==
  LET sideMultiplier == IF sd = "left" THEN -1 ELSE 1
      house(k) == CreateHouseAtPosition(slots[k], slots[k].houseType, rIndex,
                                        <<sd, slots[k].index>>, sideMultiplier)
      kept == SelectSeq([k \in 1..Len(slots) |-> house(k)],
                LAMBDA h : ~CheckHouseRoadCollision(h, DefaultBufferMeters, rIndex))
  IN  [n \in 1..Len(kept) |->
         [kept[n] EXCEPT !.houseIndex = <<sd, n - 1>>,
                         !.id = <<rIndex, sd, n - 1>>]]

\* lines 234-249: the houses of one side, colliding slots left out
PlaceHouses(slots, rIndex, sd) ==
  LET sideMultiplier == IF sd = "left" THEN -1 ELSE 1
      house(k) == CreateHouseAtPosition(slots[k], slots[k].houseType, rIndex,
                                        <<sd, slots[k].index>>, sideMultiplier)
  IN  SelectSeq([k \in 1..Len(slots) |-> house(k)],
                LAMBDA h : ~CheckHouseRoadCollision(h, DefaultBufferMeters, rIndex))

---------------------------------------------------------------------------
(* setRoads, generateHousesAlongRoads *)

IsLineString(feature) == feature.gtype = "LineString"

SetRoadsResult(roadFeatures) == SelectSeq(roadFeatures, IsLineString)

\* options.x || dflt: an option that is not given, or is 0, is falsy
OrDefault(opt, dflt) == IF ~opt.given \/ opt.value = 0 THEN dflt ELSE opt.value

---------------------------------------------------------------------------
(* Inputs: what the server holds for the three template files, the road    *)
(* features of a request and its options                                   *)

Failed == [ok |-> FALSE, data |-> [features |-> <<>>]]
LineFile(coords) ==
  [ok |-> TRUE,
   data |-> [features |-> <<[gtype |-> "LineString", coordinates |-> coords]>>]]
PolyFile(ring) ==
  [ok |-> TRUE,
   data |-> [features |-> <<[gtype |-> "Polygon", coordinates |-> ring]>>]]

\* a w x l rectangle with its lower left corner at <<x0, y0>>, not closed
OpenRect(x0, y0, w, l) ==
  << <<x0, y0>>, <<x0 + w, y0>>, <<x0 + w, y0 + l>>, <<x0, y0 + l>> >>
ClosedRect(x0, y0, w, l) == Append(OpenRect(x0, y0, w, l), <<x0, y0>>)

\* a file that parses to a feature collection without features
EmptyFile == [ok |-> TRUE, data |-> [features |-> <<>>]]
\* a file whose first feature is neither a LineString nor a Polygon
PointFile ==
  [ok |-> TRUE,
   data |-> [features |-> <<[gtype |-> "Point", coordinates |-> <<>>]>>]]

FileSets ==
  { <<Failed, Failed, Failed>>,
    <<LineFile(OpenRect(10, 3, 2, 4)), PolyFile(ClosedRect(0, 0, 4, 6)), Failed>>,
    <<LineFile(OpenRect(10, 3, 2, 4)), PolyFile(ClosedRect(0, 0, 4, 6)),
      LineFile(<< <<3, 7>> >>)>>,
    \* an empty collection, a Polygon whose ring is not closed, a Point
    <<EmptyFile, PolyFile(OpenRect(0, 0, 4, 6)), PointFile>>,
    \* three outlines of the same width
    <<LineFile(OpenRect(10, 3, 2, 4)), PolyFile(ClosedRect(0, 0, 2, 6)),
      LineFile(ClosedRect(-1, 0, 2, 5))>> }

Layers == {"ROAD_PRIMARY", "ROAD_SECONDARY", "ROAD_TERTIARY", "", "ROAD_OTHER"}

LineRoad(coords, layer) ==
  [gtype |-> "LineString", coordinates |-> coords, Layer |-> layer]

\* a straight road of length len running east from <<0, y>>
RoadA(len, y, layer) == LineRoad(<< <<0, y>>, <<len, y>> >>, layer)
\* a straight road of length len running south from <<0, 0>>
RoadS(len, layer) == LineRoad(<< <<0, 0>>, <<0, -len>> >>, layer)
\* a short road crossing RoadA(_, 0, _) at x = 5
CrossB(layer) == LineRoad(<< <<5, -4>>, <<5, 4>> >>, layer)
\* a short road lying on RoadA(_, 0, _) from x = 5 to x = 14
OverlayB(layer) == LineRoad(<< <<5, 0>>, <<14, 0>> >>, layer)
OnePointRoad == LineRoad(<< <<0, 0>> >>, "")
NotARoad == [gtype |-> "Polygon", coordinates |-> <<>>, Layer |-> ""]

RoadLengths == {4, 10, MaxRoadLength}

RoadInputs ==
  { <<RoadA(len, 0, "")>> : len \in RoadLengths }
  \cup { <<RoadA(MaxRoadLength, 0, ""), CrossB(layer)>> : layer \in Layers }
  \cup { <<RoadA(MaxRoadLength, 0, "ROAD_TERTIARY"),
           OverlayB("ROAD_SECONDARY")>>,
         <<RoadS(MaxRoadLength, "ROAD_OTHER")>>,
         <<OnePointRoad, RoadA(MaxRoadLength, 0, "")>>,
         <<RoadA(MaxRoadLength, 0, ""), OnePointRoad, CrossB("")>>,
         <<NotARoad, RoadA(MaxRoadLength, 0, "")>>,
         <<RoadA(4, 0, ""), RoadA(MaxRoadLength, 100, "ROAD_PRIMARY")>> }

NotGiven == [given |-> FALSE, value |-> 0]
Given(v) == [given |-> TRUE, value |-> v]

OptionInputs ==
  { [edgeSpacing |-> NotGiven, roadOffset |-> NotGiven],
    [edgeSpacing |-> Given(5), roadOffset |-> Given(3)],
    [edgeSpacing |-> Given(7), roadOffset |-> NotGiven] }

---------------------------------------------------------------------------
(* The state machine *)

\* a call without an options argument
NoOptions == [edgeSpacing |-> NotGiven, roadOffset |-> NotGiven]

\* lastCall before any call, and as a call of kind with options sets it
NoCall == [kind |-> "none", options |-> NoOptions, produced |-> <<>>]
Called(kind, options) ==
  lastCall' = [kind |-> kind, options |-> options, produced |-> <<>>]

\* replay before the first run
NoReplay == [roadFeatures |-> <<>>, options |-> NoOptions, houses |-> <<>>,
             firstDraws |-> <<>>, draws |-> <<>>]

\* the watcher after the module has loaded (part_003, lines 11-12): no run,
\* nothing queued
InitWatcher ==
  /\ running = FALSE
  /\ queued = FALSE
  /\ proc = 0
  /\ timers = 0
  /\ trigger = "none"
  /\ events = 0
  /\ owed = FALSE

\* no invocation of loadHouseTypes has started: i is the loop index of an
\* invocation (-1 before it starts, 3 when it has returned), files the
\* responses it has received
NotLoading == [k \in 1..2 |-> [i |-> -1, files |-> <<>>]]

Init ==
  /\ houseTypes = <<>>
  /\ roads = <<>>
  /\ allRoadGeometries = <<>>
  /\ generatedHouses = <<>>
  /\ edgeSpacing = DefaultEdgeSpacing
  /\ roadOffset = DefaultRoadOffset
  /\ pc = "idle"
  /\ roadIndex = 0
  /\ side = "left"
  /\ tempHouses = <<>>
  /\ totalWidthNeeded = 0
  /\ positions = <<>>
  /\ houses = <<>>
  /\ calls = 0
  /\ lastCall = NoCall
  /\ replay = NoReplay
  /\ loading = NotLoading
  /\ InitWatcher

\* the road generateHouses is working on
CurrentRoad == roads[roadIndex + 1]
RoadLength == CalculateRoadLength(CurrentRoad.coordinates)
\* faulty variant: nothing is left free at the ends
AvailableLengthWholeRoad == RoadLength

\* line 296
AvailableLength == RoadLength - 10

\* generateHousesAlongRoads up to the await of generateHouses (lines 602-609,
\* 177-187, 193-201)
GenerateHousesAlongRoads(roadFeatures, options) ==
  /\ pc = "idle"
  /\ calls < MaxGenerations
  /\ calls' = calls + 1
  /\ edgeSpacing' = OrDefault(options.edgeSpacing, DefaultEdgeSpacing)
  /\ roadOffset' = OrDefault(options.roadOffset, DefaultRoadOffset)
  /\ roads' = SetRoadsResult(roadFeatures)
  /\ allRoadGeometries' = SetRoadsResult(roadFeatures)
  /\ IF Len(houseTypes) = 0
     THEN pc' = "load" /\ UNCHANGED generatedHouses
     ELSE pc' = "road" /\ generatedHouses' = <<>>
  /\ roadIndex' = 0
  /\ UNCHANGED <<houseTypes, side, tempHouses, totalWidthNeeded, positions, houses>>

\* generateHouses called directly, up to its await (lines 193-201): the
\* roads and the options are the ones the object holds
GenerateHouses ==
  /\ pc = "idle"
  /\ calls < MaxGenerations
  /\ calls' = calls + 1
  /\ IF Len(houseTypes) = 0
     THEN pc' = "load" /\ UNCHANGED generatedHouses
     ELSE pc' = "road" /\ generatedHouses' = <<>>
  /\ roadIndex' = 0
  /\ UNCHANGED <<houseTypes, roads, allRoadGeometries, edgeSpacing, roadOffset,
                 side, tempHouses, totalWidthNeeded, positions, houses>>

\* loadHouseTypes, then line 201
LoadHouseTypes(files) ==
  /\ pc = "load"
  /\ houseTypes' = LoadHouseTypesResult(files)
  /\ generatedHouses' = <<>>
  /\ pc' = "road"
  /\ UNCHANGED <<roads, allRoadGeometries, edgeSpacing, roadOffset, roadIndex,
                 side, tempHouses, totalWidthNeeded, positions, houses, calls>>

\* faulty variant: a road of fewer than 2 points ends the whole generation
SkipShortRoadAborts ==
  /\ pc = "road"
  /\ roadIndex < Len(roads)
  /\ HasCoordinates(CurrentRoad)
  /\ Len(CurrentRoad.coordinates) < 2
  /\ pc' = "done"
  /\ UNCHANGED <<houseTypes, roads, allRoadGeometries, generatedHouses,
                 edgeSpacing, roadOffset, roadIndex, side, tempHouses,
                 totalWidthNeeded, positions, houses, calls>>

\* generateHousesAlongRoad, line 221: a road of fewer than 2 points gives []
SkipShortRoad ==
  /\ pc = "road"
  /\ roadIndex < Len(roads)
  /\ HasCoordinates(CurrentRoad)
  /\ Len(CurrentRoad.coordinates) < 2
  /\ roadIndex' = roadIndex + 1
  /\ UNCHANGED <<houseTypes, roads, allRoadGeometries, generatedHouses,
                 edgeSpacing, roadOffset, pc, side, tempHouses,
                 totalWidthNeeded, positions, houses, calls>>

\* generateHousesAlongRoad, lines 223-231, and calculateHousePositions up to
\* its selection loop, for the left side
BeginRoad ==
  /\ pc = "road"
  /\ roadIndex < Len(roads)
  /\ HasCoordinates(CurrentRoad)
  /\ Len(CurrentRoad.coordinates) >= 2
  /\ houses' = <<>>
  /\ side' = "left"
  /\ tempHouses' = <<>>
  /\ totalWidthNeeded' = 0
  /\ positions' = <<>>
  /\ pc' = "select"
  /\ UNCHANGED <<houseTypes, roads, allRoadGeometries, generatedHouses,
                 edgeSpacing, roadOffset, roadIndex, calls>>

\* faulty variant: the width of the drawn template is not counted
WontFitIgnoringWidth(houseType) == totalWidthNeeded > AvailableLength

\* faulty variant: a template that exactly fills the rest is turned down
WontFitAtExactFill(houseType) ==
  totalWidthNeeded + houseType.width >= AvailableLength

\* line 307: the drawn template does not fit
WontFit(houseType) == totalWidthNeeded + houseType.width > AvailableLength

\* one iteration of the selection loop (lines 301-313) in which the drawn
\* template fits; houseTypeIndex is the outcome of Math.random
SelectHouse(houseTypeIndex) ==
  /\ pc = "select"
  /\ ~WontFit(houseTypes[houseTypeIndex])
  /\ tempHouses' = Append(tempHouses, houseTypes[houseTypeIndex])
  /\ totalWidthNeeded' = totalWidthNeeded
                           + houseTypes[houseTypeIndex].width + edgeSpacing
  /\ UNCHANGED <<houseTypes, roads, allRoadGeometries, generatedHouses,
                 edgeSpacing, roadOffset, pc, roadIndex, side, positions,
                 houses, calls>>

\* the iteration in which the drawn template does not fit: the loop breaks,
\* the slots are computed (lines 315-340) and the houses of this side are
\* created and tested (lines 234-249)
StopAndPlace(houseTypeIndex) ==
  /\ pc = "select"
  /\ WontFit(houseTypes[houseTypeIndex])
  /\ totalWidthNeeded' = IF Len(tempHouses) > 0
                         THEN totalWidthNeeded - edgeSpacing
                         ELSE totalWidthNeeded
  /\ positions' = CalculateHousePositions(CurrentRoad.coordinates, side, tempHouses)
  /\ houses' = houses \o PlaceHouses(positions', roadIndex, side)
  /\ pc' = "placed"
  /\ UNCHANGED <<houseTypes, roads, allRoadGeometries, generatedHouses,
                 edgeSpacing, roadOffset, roadIndex, side, tempHouses, calls>>

\* the for loop of line 227 moves to the right side
NextSide ==
  /\ pc = "placed"
  /\ side = "left"
  /\ side' = "right"
  /\ tempHouses' = <<>>
  /\ totalWidthNeeded' = 0
  /\ positions' = <<>>
  /\ pc' = "select"
  /\ UNCHANGED <<houseTypes, roads, allRoadGeometries, generatedHouses,
                 edgeSpacing, roadOffset, roadIndex, houses, calls>>

\* generateHousesAlongRoad returns; line 206 pushes its houses
EndRoad ==
  /\ pc = "placed"
  /\ side = "right"
  /\ generatedHouses' = generatedHouses \o houses
  /\ roadIndex' = roadIndex + 1
  /\ houses' = <<>>
  /\ side' = "left"
  /\ tempHouses' = <<>>
  /\ totalWidthNeeded' = 0
  /\ positions' = <<>>
  /\ pc' = "road"
  /\ UNCHANGED <<houseTypes, roads, allRoadGeometries, edgeSpacing,
                 roadOffset, calls>>

\* the forEach of line 204 is over: generateHouses returns (line 210)
FinishGeneration ==
  /\ pc = "road"
  /\ roadIndex >= Len(roads)
  /\ pc' = "done"
  /\ UNCHANGED <<houseTypes, roads, allRoadGeometries, generatedHouses,
                 edgeSpacing, roadOffset, roadIndex, side, tempHouses,
                 totalWidthNeeded, positions, houses, calls>>

\* generateHousesAlongRoads returns the feature collection (lines 611-633)
Return ==
  /\ pc = "done"
  /\ pc' = "idle"
  /\ UNCHANGED <<houseTypes, roads, allRoadGeometries, generatedHouses,
                 edgeSpacing, roadOffset, roadIndex, side, tempHouses,
                 totalWidthNeeded, positions, houses, calls>>

ClearHouses ==
  /\ pc = "idle"
  /\ generatedHouses' = <<>>
  /\ UNCHANGED <<houseTypes, roads, allRoadGeometries, edgeSpacing,
                 roadOffset, pc, roadIndex, side, tempHouses,
                 totalWidthNeeded, positions, houses, calls>>

\* the steps of a program that makes its calls one after the other, with
\* the history of the most recent call
Next ==
  \/ \E roadFeatures \in RoadInputs, options \in OptionInputs :
        /\ GenerateHousesAlongRoads(roadFeatures, options)
        /\ Called("generateHousesAlongRoads", options)
        /\ UNCHANGED <<replay, loading, wvars>>
  \/ GenerateHouses /\ Called("generateHouses", NoOptions)
                    /\ UNCHANGED <<replay, loading, wvars>>
  \/ \E files \in FileSets : LoadHouseTypes(files) /\ UNCHANGED hvars
  \/ SkipShortRoad /\ UNCHANGED hvars
  \/ BeginRoad /\ UNCHANGED hvars
  \/ \E houseTypeIndex \in 1..Len(houseTypes) :
        SelectHouse(houseTypeIndex) /\ UNCHANGED hvars
  \/ \E houseTypeIndex \in 1..Len(houseTypes) :
        StopAndPlace(houseTypeIndex) /\ UNCHANGED hvars
  \/ NextSide /\ UNCHANGED hvars
  \/ EndRoad /\ lastCall' = [lastCall EXCEPT !.produced = @ \o houses]
             /\ UNCHANGED <<replay, loading, wvars>>
  \/ FinishGeneration /\ UNCHANGED hvars
  \/ Return /\ UNCHANGED hvars
  \/ ClearHouses /\ Called("clearHouses", NoOptions)
                 /\ UNCHANGED <<replay, loading, wvars>>

Spec == Init /\ [][Next]_vars

---------------------------------------------------------------------------
(* Vocabulary of the properties *)

\* the houses generateHousesAlongRoad has kept for the side it is working on
SideHouses == SelectSeq(houses, LAMBDA h : h.side = side)

\* the house a slot gives, before the collision test
HouseOfSlot(p) ==
  CreateHouseAtPosition(p, p.houseType, roadIndex, <<p.side, p.index>>,
                        IF p.side = "left" THEN -1 ELSE 1)

\* the world polygon lies within the buffer of a road with a centerline
InBufferOf(geometry, road) ==
  /\ Len(road.coordinates) >= 2
  /\ IntersectsBuffer(geometry, road.coordinates,
                      BufferMeters(road, DefaultBufferMeters))

\* the world polygon lies within the buffer of a road other than road r
InOtherRoadBuffer(geometry, r) ==
  \E i \in 1..Len(allRoadGeometries) :
     i - 1 # r /\ InBufferOf(geometry, allRoadGeometries[i])

\* a template whose outline is centred on local X = 0
Centred(houseType) ==
  SeqMin(houseType.geometry, 1) = -SeqMax(houseType.geometry, 1)

RECURSIVE SumWidths(_)
SumWidths(temp) ==
  IF Len(temp) = 0 THEN 0
  ELSE temp[1].width + SumWidths(Tail(temp))

\* widths of the selected templates plus one spacing between adjacent ones
WidthsAndInnerSpacings(temp) ==
  SumWidths(temp) + (IF Len(temp) > 0 THEN (Len(temp) - 1) * edgeSpacing ELSE 0)

\* arc-length coordinate of a world point along a straight two-point road
AlongRoad(road, pt) ==
  LET start == road.coordinates[1]
      d == Dir(Bearing(start, road.coordinates[2]))
  IN  (pt[1] - start[1]) * d[1] + (pt[2] - start[2]) * d[2]

GeometryMinAlong(road, geometry) ==
  CHOOSE m \in {AlongRoad(road, geometry[i]) : i \in 1..Len(geometry)} :
    \A i \in 1..Len(geometry) : m <= AlongRoad(road, geometry[i])
GeometryMaxAlong(road, geometry) ==
  CHOOSE m \in {AlongRoad(road, geometry[i]) : i \in 1..Len(geometry)} :
    \A i \in 1..Len(geometry) : m >= AlongRoad(road, geometry[i])

---------------------------------------------------------------------------
(* C1 *)

\* C1 (as claimed): no house returned by generateHouses lies within the
\* buffer of a road other than the one it was placed along, and a side
\* whose slots all lie within another road's buffer keeps no house.
C1_NoHouseInOtherRoadBuffer ==
  /\ pc = "done" =>
       \A n \in 1..Len(generatedHouses) :
          ~InOtherRoadBuffer(generatedHouses[n].geometry,
                             generatedHouses[n].roadIndex)
  /\ (pc = "placed"
        /\ \A k \in 1..Len(positions) :
              InOtherRoadBuffer(HouseOfSlot(positions[k]).geometry, roadIndex))
       => SideHouses = <<>>

\* The failing case: a house from a one-position outline was returned and
\* lies within the buffer of another road.
C1_UntestedHouseInBuffer ==
  /\ pc = "done"
  /\ \E n \in 1..Len(generatedHouses) :
        /\ HousePolygonThrows(generatedHouses[n])
        /\ InOtherRoadBuffer(generatedHouses[n].geometry,
                             generatedHouses[n].roadIndex)

---------------------------------------------------------------------------
(* C2, C3 *)

\* C2 (as claimed): consecutive slots of a (road, side) whose templates are
\* centred on their anchor are at least width_i/2 + width_{i+1}/2 +
\* edgeSpacing apart (both sides of the inequality doubled).
C2_AnchorsHalfWidthsAndSpacingApart ==
  pc = "placed" =>
    \A k \in 1..(Len(positions) - 1) :
       (Centred(positions[k].houseType) /\ Centred(positions[k + 1].houseType))
       => 2 * (positions[k + 1].distance - positions[k].distance)
            >= positions[k].houseType.width + positions[k + 1].houseType.width
               + 2 * edgeSpacing

\* C3 (as claimed): the extent along the road of the world polygon of every
\* house from a centred template lies inside
\* [endClearance, roadLength - endClearance].
C3_FootprintOutsideClearance ==
  pc = "placed" =>
    \A n \in 1..Len(SideHouses) :
       LET h == SideHouses[n]
           slot == CHOOSE p \in {positions[k] : k \in 1..Len(positions)} :
                     p.index = h.houseIndex[2]
       IN  Centred(slot.houseType)
           => /\ GeometryMinAlong(CurrentRoad, h.geometry) >= EndClearance
              /\ GeometryMaxAlong(CurrentRoad, h.geometry)
                   <= RoadLength - EndClearance

---------------------------------------------------------------------------
(* C4, C5, C6, C7 *)

C5_BudgetWithinUsableLength ==
  pc = "placed" => WidthsAndInnerSpacings(tempHouses) <= RoadLength - 2 * EndClearance

\* C5 (amended): the same when at least one template was selected, and the
\* budget the code ends with is that sum (no spacing charged after the last
\* template); with no template selected the budget is 0.
C5_BudgetWithinUsableLengthIfSelected ==
  pc = "placed" =>
    /\ totalWidthNeeded = WidthsAndInnerSpacings(tempHouses)
    /\ Len(tempHouses) > 0 =>
         WidthsAndInnerSpacings(tempHouses) <= RoadLength - 2 * EndClearance

\* two templates were selected and fill the usable length exactly
C5_Witness ==
  /\ pc = "placed"
  /\ Len(tempHouses) >= 2
  /\ WidthsAndInnerSpacings(tempHouses) = RoadLength - 2 * EndClearance

\* C6: one slot per selected template, in selection order, the first at
\* endClearance and each next one width_i + edgeSpacing further.
C6_SlotRecurrence ==
  pc = "placed" =>
    /\ Len(positions) = Len(tempHouses)
    /\ \A k \in 1..Len(positions) :
          /\ positions[k].houseType = tempHouses[k]
          /\ positions[k].index = k - 1
          /\ k = 1 => positions[k].distance = EndClearance
          /\ k > 1 => positions[k].distance
                        = positions[k - 1].distance
                          + tempHouses[k - 1].width + edgeSpacing

\* slots of two templates of different widths were computed
C6_Witness ==
  /\ pc = "placed"
  /\ Len(positions) >= 2
  /\ positions[1].houseType.width # positions[2].houseType.width
  /\ positions[1].houseType.width > 0

\* C7 (as claimed): a road whose usable length is <= 0, or in which no
\* template of the catalog fits, gets no slots on either side.
C7_NoSlotsWithoutUsableLength ==
  pc = "placed" =>
    ((RoadLength - 2 * EndClearance <= 0
       \/ \A t \in 1..Len(houseTypes) :
            houseTypes[t].width > RoadLength - 2 * EndClearance)
     => positions = <<>>)

---------------------------------------------------------------------------
(* C8, C9, C10 *)

ShortRoad(road) == Len(road.coordinates) < 2

\* C8: a road of fewer than 2 points yields no house and does not stop the
\* generation: its step leaves the houses generated so far unchanged and
\* moves on to the next road, the selection loop never runs on it, and the
\* generation returns only after every road was visited.
C8_ShortRoadSkipped ==
  /\ [](/\ pc \in {"select", "placed"} => ~ShortRoad(CurrentRoad)
        /\ pc = "done" =>
             /\ roadIndex = Len(roads)
             /\ \A n \in 1..Len(generatedHouses) :
                   ~ShortRoad(roads[generatedHouses[n].roadIndex + 1]))
  /\ [][(pc = "road" /\ roadIndex < Len(roads) /\ ShortRoad(CurrentRoad))
         => /\ pc' = "road"
            /\ roadIndex' = roadIndex + 1
            /\ generatedHouses' = generatedHouses]_vars

\* a generation over a one-point road and another road returned houses of
\* the other road
C8_Witness ==
  /\ pc = "done"
  /\ \E r \in 1..Len(roads) : ShortRoad(roads[r])
  /\ generatedHouses # <<>>

\* the slots whose house fails the collision test
CollidingSlots ==
  {k \in 1..Len(positions) :
     CheckHouseRoadCollision(HouseOfSlot(positions[k]), DefaultBufferMeters,
                             roadIndex)}

\* C9: the houses kept for a (road, side) are the slots that did not
\* collide, in slot order, each with the slot index, position and template
\* of its slot; the slot positions do not depend on which slots collided.
C9_DiscardLeavesOtherSlots ==
  pc = "placed" =>
    /\ \A k \in 1..Len(positions) :
          positions[k].distance = CurrentDistanceAt(tempHouses, k)
    /\ {SideHouses[n].houseIndex[2] : n \in 1..Len(SideHouses)}
         = {positions[k].index : k \in (1..Len(positions)) \ CollidingSlots}
    /\ \A n \in 1..(Len(SideHouses) - 1) :
          SideHouses[n].houseIndex[2] < SideHouses[n + 1].houseIndex[2]
    /\ \A n \in 1..Len(SideHouses) :
          LET h == SideHouses[n]
              p == positions[h.houseIndex[2] + 1]
          IN  /\ p.index = h.houseIndex[2]
              /\ h.id = <<roadIndex, side, p.index>>
              /\ h.type = p.houseType.type
              /\ h.width = p.houseType.width
              /\ AlongRoad(CurrentRoad, <<h.lng, h.lat>>) = p.distance

\* the first slot was discarded and a later slot kept its index
C9_Witness ==
  /\ pc = "placed"
  /\ 1 \in CollidingSlots
  /\ \E n \in 1..Len(SideHouses) : SideHouses[n].houseIndex[2] >= 1

LayerRank(layer) ==
  IF layer = "ROAD_PRIMARY" THEN 3
  ELSE IF layer = "ROAD_SECONDARY" THEN 2
  ELSE IF layer = "ROAD_TERTIARY" THEN 1
  ELSE 0

\* the buffer checkHouseRoadCollision would use for road if its tag were layer
BufferIfTagged(road, layer) ==
  BufferMeters([road EXCEPT !.Layer = layer], DefaultBufferMeters)

\* C10 (as claimed): the buffer used in the collision tests is strictly
\* monotonic in the road class, primary > secondary > tertiary > no or
\* unknown tag.
C10_BufferStrictlyMonotonic ==
  (pc = "placed" /\ positions # <<>>) =>
  \A r \in 1..Len(allRoadGeometries) : \A layer \in Layers :
     LayerRank(allRoadGeometries[r].Layer) > LayerRank(layer)
     => BufferMeters(allRoadGeometries[r], DefaultBufferMeters)
          > BufferIfTagged(allRoadGeometries[r], layer)

\* C10 (amended): primary > secondary > tertiary strictly; a road with no or
\* an unknown tag gets the default buffer passed by generateHousesAlongRoad,
\* which equals the secondary buffer and exceeds the tertiary one.
C10_BufferMonotonicAmongClasses ==
  (pc = "placed" /\ positions # <<>>) =>
  \A r \in 1..Len(allRoadGeometries) : \A layer \in Layers :
     LET road == allRoadGeometries[r]
         own == BufferMeters(road, DefaultBufferMeters)
     IN  /\ (LayerRank(road.Layer) > LayerRank(layer) /\ LayerRank(layer) >= 1)
            => own > BufferIfTagged(road, layer)
         /\ LayerRank(road.Layer) = 0
            => /\ own = DefaultBufferMeters
               /\ own = BufferIfTagged(road, "ROAD_SECONDARY")
               /\ own > BufferIfTagged(road, "ROAD_TERTIARY")
               /\ own < BufferIfTagged(road, "ROAD_PRIMARY")

\* a house was tested against a tertiary road while an untagged road is
\* part of the same request
C10_Witness ==
  /\ pc = "placed"
  /\ positions # <<>>
  /\ \E r \in 1..Len(allRoadGeometries) :
        r - 1 # roadIndex /\ allRoadGeometries[r].Layer = "ROAD_TERTIARY"
  /\ \E r \in 1..Len(allRoadGeometries) : allRoadGeometries[r].Layer = ""

---------------------------------------------------------------------------
(* C12 *)

\* a template the loader parsed although its outline has no positive width
NonPositiveWidth(houseType) == houseType.width <= 0

\* C12 (as claimed): a template of non-positive width is never selected for
\* a slot and never appears among the houses generateHouses returns.
C12_InvalidTemplateNeverPlaced ==
  /\ \A k \in 1..Len(tempHouses) : ~NonPositiveWidth(tempHouses[k])
  /\ \A k \in 1..Len(positions) : ~NonPositiveWidth(positions[k].houseType)
  /\ \A n \in 1..Len(generatedHouses) : generatedHouses[n].width > 0

\* The rest of the claim: the generation over a catalog with a template of
\* non-positive width can return houses of the valid templates.
C12_ValidTemplatesStillPlaced ==
  /\ pc = "done"
  /\ \E t \in 1..Len(houseTypes) : NonPositiveWidth(houseTypes[t])
  /\ \E n \in 1..Len(generatedHouses) : generatedHouses[n].width > 0

---------------------------------------------------------------------------
(* C13 *)

\* a ring whose first point equals its last point
Closed(ring) == Len(ring) > 0 /\ ring[1] = ring[Len(ring)]

\* C13 (as claimed): the world polygon of every house createHouseAtPosition
\* produces is closed, whatever template of the catalog it was made from.
C13_WorldPolygonClosed ==
  /\ pc = "placed" =>
       \A k \in 1..Len(positions) : Closed(HouseOfSlot(positions[k]).geometry)
  /\ \A n \in 1..Len(generatedHouses) : Closed(generatedHouses[n].geometry)

\* What holds: the transformation keeps a closed outline closed, and the
\* loader closes every LineString outline and every fallback rectangle; only
\* the ring of a Polygon file is taken as it is.
C13_ClosedUnlessPolygonRingOpen ==
  /\ pc = "placed" =>
       \A k \in 1..Len(positions) :
          Closed(positions[k].houseType.geometry)
          => Closed(HouseOfSlot(positions[k]).geometry)
  /\ \A files \in FileSets : \A i \in 1..3 :
       Closed(LoadOne(files[i], i).geometry)
       \/ (/\ files[i].ok
           /\ files[i].data.features # <<>>
           /\ files[i].data.features[1].gtype = "Polygon"
           /\ ~Closed(files[i].data.features[1].coordinates))

---------------------------------------------------------------------------
(* C14 *)

\* how far pt lies from the centerline point of slot p towards the side of
\* the slot: the coordinate along the bearing b - 90 (left) or b + 90 (right)
TowardsSide(p, pt) ==
  LET d == Dir(p.bearing + (IF p.side = "left" THEN -90 ELSE 90))
  IN  (pt[1] - p.lng) * d[1] + (pt[2] - p.lat) * d[2]

\* C14: the house of a slot with road bearing b is anchored roadOffset from
\* the centerline point along b - 90 (left) or b + 90 (right), its
\* orientation is that same bearing, and so the points of the template's
\* front edge (local Y = 0) are the ones nearest the road: they lie
\* roadOffset from it and every other point localY further.
C14_OffsetAndOrientationBySide ==
  pc = "placed" =>
    \A k \in 1..Len(positions) :
       LET p == positions[k]
           h == HouseOfSlot(p)
           b == p.bearing + (IF p.side = "left" THEN -90 ELSE 90)
       IN  /\ <<h.lng, h.lat>> = Destination(<<p.lng, p.lat>>, roadOffset, b)
           /\ (h.bearing - b) % 360 = 0
           /\ \A i \in 1..Len(h.geometry) :
                 TowardsSide(p, h.geometry[i])
                   = roadOffset + p.houseType.geometry[i][2]

\* houses of a template with a length were placed on both sides of a road
\* that runs south
C14_Witness ==
  /\ pc = "placed"
  /\ side = "right"
  /\ CurrentRoad.coordinates[2][2] < CurrentRoad.coordinates[1][2]
  /\ \E n \in 1..Len(houses) : houses[n].side = "left" /\ houses[n].length > 0
  /\ \E n \in 1..Len(houses) : houses[n].side = "right" /\ houses[n].length > 0

---------------------------------------------------------------------------
(* C15 *)

\* a generation call is running or has just returned
InGeneration == pc \in {"load", "road", "select", "placed", "done"}

\* getHouses() holds what the most recent generation has produced, and
\* nothing after clearHouses
OnlyLatestGeneration == generatedHouses = lastCall.produced

\* the spacing and the offset in use are the ones the options of the
\* running call give
OptionsOfThisCall ==
  /\ edgeSpacing = OrDefault(lastCall.options.edgeSpacing, DefaultEdgeSpacing)
  /\ roadOffset = OrDefault(lastCall.options.roadOffset, DefaultRoadOffset)

\* C15 (as claimed): after any sequence of generateHousesAlongRoads,
\* generateHouses and clearHouses calls getHouses() holds exactly the houses
\* of the most recent generation, and the edgeSpacing and roadOffset a call
\* uses depend only on that call's options.
C15_NoStateAcrossCalls ==
  /\ OnlyLatestGeneration
  /\ InGeneration => OptionsOfThisCall

\* What holds: the first half for every call, the second half for the
\* calls of generateHousesAlongRoads.
C15_NoStateAcrossAlongRoadsCalls ==
  /\ OnlyLatestGeneration
  /\ (InGeneration /\ lastCall.kind = "generateHousesAlongRoads")
       => OptionsOfThisCall

\* a second generation has returned houses after a first one had
C15_SecondGenerationReturned ==
  /\ pc = "done"
  /\ calls = 2
  /\ generatedHouses # <<>>
  /\ lastCall.kind = "generateHouses"

---------------------------------------------------------------------------
(* C11: two runs of generateHousesAlongRoads on the same inputs *)

\* the requests and catalogs of the two runs
ReplayRoads ==
  { <<RoadA(MaxRoadLength, 0, "")>>,
    <<OnePointRoad, RoadS(MaxRoadLength, "ROAD_OTHER")>> }
ReplayOptions ==
  { NoOptions, [edgeSpacing |-> Given(5), roadOffset |-> Given(3)] }
ReplayFileSets ==
  { <<Failed, Failed, Failed>>,
    <<EmptyFile, PolyFile(OpenRect(0, 0, 4, 6)), PointFile>> }

\* the first run: the call and its arguments are recorded
FirstRun(roadFeatures, options) ==
  /\ calls = 0
  /\ GenerateHousesAlongRoads(roadFeatures, options)
  /\ replay' = [NoReplay EXCEPT !.roadFeatures = roadFeatures,
                                !.options = options]
  /\ UNCHANGED <<lastCall, loading, wvars>>

\* the second run: the same call on the same object
SecondRun ==
  /\ calls = 1
  /\ GenerateHousesAlongRoads(replay.roadFeatures, replay.options)
  /\ replay' = [replay EXCEPT !.draws = <<>>]
  /\ UNCHANGED <<lastCall, loading, wvars>>

\* an iteration of the selection loop, with the outcome of its Math.random
\* call (line 302) recorded
Draw(houseTypeIndex) ==
  /\ SelectHouse(houseTypeIndex) \/ StopAndPlace(houseTypeIndex)
  /\ replay' = [replay EXCEPT !.draws = Append(@, houseTypeIndex)]
  /\ UNCHANGED <<lastCall, loading, wvars>>

\* a run returns; the result and the draws of the first run are recorded
ReturnRun ==
  /\ Return
  /\ replay' = IF calls = 1
               THEN [replay EXCEPT !.houses = generatedHouses,
                                   !.firstDraws = replay.draws]
               ELSE replay
  /\ UNCHANGED <<lastCall, loading, wvars>>

NextReplay ==
  \/ \E roadFeatures \in ReplayRoads, options \in ReplayOptions :
        FirstRun(roadFeatures, options)
  \/ SecondRun
  \/ \E files \in ReplayFileSets : LoadHouseTypes(files) /\ UNCHANGED hvars
  \/ SkipShortRoad /\ UNCHANGED hvars
  \/ BeginRoad /\ UNCHANGED hvars
  \/ \E houseTypeIndex \in 1..Len(houseTypes) : Draw(houseTypeIndex)
  \/ NextSide /\ UNCHANGED hvars
  \/ EndRoad /\ UNCHANGED hvars
  \/ FinishGeneration /\ UNCHANGED hvars
  \/ ReturnRun

SpecReplay == Init /\ [][NextReplay]_vars

\* ids, templates, positions and sides of a list of houses
HouseSet(list) ==
  {[id |-> list[n].id, type |-> list[n].type, lng |-> list[n].lng,
    lat |-> list[n].lat, side |-> list[n].side] : n \in 1..Len(list)}

\* C11 (as claimed): the second of two runs with the same roads, catalog and
\* options, both drawing from the random source the code has, returns the
\* same set of houses as the first.
C11_SameInputsSameHouses ==
  (pc = "done" /\ calls = 2)
    => HouseSet(generatedHouses) = HouseSet(replay.houses)

\* What holds: the two runs return the same houses whenever their
\* Math.random calls had the same outcomes.
C11_SameDrawsSameHouses ==
  (pc = "done" /\ calls = 2 /\ replay.draws = replay.firstDraws)
    => generatedHouses = replay.houses

\* two runs with the same outcomes have returned houses on both sides
C11_SameDrawsReached ==
  /\ pc = "done"
  /\ calls = 2
  /\ replay.draws = replay.firstDraws
  /\ \E n \in 1..Len(generatedHouses) : generatedHouses[n].side = "left"
  /\ \E n \in 1..Len(generatedHouses) : generatedHouses[n].side = "right"

---------------------------------------------------------------------------
(* C16: loadHouseTypes, one loop iteration at a time *)

\* what a fetch of one template file can give
LoadFiles ==
  { Failed, EmptyFile, PointFile, LineFile(OpenRect(10, 3, 2, 4)),
    PolyFile(ClosedRect(0, 0, 4, 6)) }

\* the button handler's call of loadHouseTypes after it has created the
\* generator (part_001, lines 2282-2285): line 28 empties the catalog
StartLoad ==
  /\ loading[1].i = -1
  /\ loading[2].i = -1
  /\ houseTypes' = <<>>
  /\ loading' = [loading EXCEPT ![1].i = 0]
  /\ UNCHANGED <<roads, allRoadGeometries, generatedHouses, edgeSpacing,
                 roadOffset, pc, roadIndex, side, tempHouses, totalWidthNeeded,
                 positions, houses, calls, lastCall, replay, wvars>>

\* the call of loadHouseTypes by generateHouses (lines 196-198), which a
\* second click reaches while the handler of the first awaits its load: the
\* catalog is still empty
StartLoadFromGenerateHouses ==
  /\ loading[1].i >= 0
  /\ loading[2].i = -1
  /\ Len(houseTypes) = 0
  /\ houseTypes' = <<>>
  /\ loading' = [loading EXCEPT ![2].i = 0]
  /\ UNCHANGED <<roads, allRoadGeometries, generatedHouses, edgeSpacing,
                 roadOffset, pc, roadIndex, side, tempHouses, totalWidthNeeded,
                 positions, houses, calls, lastCall, replay, wvars>>

\* one iteration of the loop of invocation k (lines 30-57): the awaited
\* fetch answers with file, and the template or its fallback is pushed
LoadIteration(k, file) ==
  /\ loading[k].i \in 0..2
  /\ houseTypes' = Append(houseTypes, LoadOne(file, loading[k].i + 1))
  /\ loading' = [loading EXCEPT ![k].i = @ + 1, ![k].files = Append(@, file)]
  /\ UNCHANGED <<roads, allRoadGeometries, generatedHouses, edgeSpacing,
                 roadOffset, pc, roadIndex, side, tempHouses, totalWidthNeeded,
                 positions, houses, calls, lastCall, replay, wvars>>

NextLoading ==
  \/ StartLoad
  \/ StartLoadFromGenerateHouses
  \/ \E k \in 1..2, file \in LoadFiles : LoadIteration(k, file)

SpecLoading == Init /\ [][NextLoading]_vars

\* the fetch of a file failed, or the file has no outline the parser supports
LoadFails(file) ==
  \/ ~file.ok
  \/ file.data.features = <<>>
  \/ file.data.features[1].gtype \notin {"LineString", "Polygon"}

\* the catalog is the three templates of the files: ids 1, 2, 3 in order, the
\* fixed fallback rectangle for a failed load, the extent of the file's
\* outline for a successful one
CatalogOf(files) ==
  /\ Len(houseTypes) = 3
  /\ \A j \in 1..3 :
        /\ houseTypes[j].type = j
        /\ IF LoadFails(files[j])
           THEN /\ houseTypes[j].width = FallbackWidths[j]
                /\ houseTypes[j].length = FallbackLengths[j]
                /\ houseTypes[j].geometry
                     = ClosedRect(0, 0, FallbackWidths[j], FallbackLengths[j])
           ELSE LET c == files[j].data.features[1].coordinates
                IN  /\ houseTypes[j].width = SeqMax(c, 1) - SeqMin(c, 1)
                    /\ houseTypes[j].length = SeqMax(c, 2) - SeqMin(c, 2)

\* C16 (as claimed): when an invocation of loadHouseTypes has completed, the
\* catalog is the three templates of the files it fetched.
C16_CatalogOfThree ==
  \A k \in 1..2 : loading[k].i = 3 => CatalogOf(loading[k].files)

\* What holds: the same for an invocation during which no other invocation
\* was in progress.
C16_CatalogOfThreeIfAlone ==
  (loading[1].i = 3 /\ loading[2].i = -1) => CatalogOf(loading[1].files)

\* one invocation has completed alone with a failed, an unsupported and a
\* successful load
C16_AloneReached ==
  /\ loading[1].i = 3
  /\ loading[2].i = -1
  /\ \E j \in 1..3 : loading[1].files[j] = Failed
  /\ \E j \in 1..3 : loading[1].files[j] = PointFile
  /\ \E j \in 1..3 : ~LoadFails(loading[1].files[j])

---------------------------------------------------------------------------
(* C17 *)

\* every template of the catalog has the width w: as far as the selection
\* loop can tell, a catalog of a single template of width w
SingleWidth(w) == \A t \in 1..Len(houseTypes) : houseTypes[t].width = w

\* n templates of width w with edgeSpacing between adjacent ones fit into the
\* usable length
FitsTimes(n, w) ==
  n * w + (n - 1) * edgeSpacing <= RoadLength - 2 * EndClearance

\* C17 (as claimed): with a single template width w > 0 the number of slots
\* of a side is the largest n >= 0 with
\* n*w + (n - 1)*edgeSpacing <= roadLength - 2*endClearance.
C17_SlotCountIsLargestFit ==
  pc = "placed" =>
    \A w \in 1..MaxRoadLength :
       SingleWidth(w) =>
         /\ FitsTimes(Len(positions), w)
         /\ \A n \in (Len(positions) + 1)..(MaxRoadLength + 1) : ~FitsTimes(n, w)

\* C17 (amended): the number of slots is the largest n >= 1 with that
\* property, a template that exactly fills the rest included, and 0 when no
\* n >= 1 has it.
C17_SlotCountIsLargestFitOrNone ==
  pc = "placed" =>
    \A w \in 1..MaxRoadLength :
       SingleWidth(w) =>
         /\ Len(positions) >= 1 => FitsTimes(Len(positions), w)
         /\ \A n \in (Len(positions) + 1)..(MaxRoadLength + 1) : ~FitsTimes(n, w)

\* two slots of one width were computed and fill the usable length exactly
C17_Witness ==
  /\ pc = "placed"
  /\ \E w \in 1..MaxRoadLength : SingleWidth(w)
  /\ Len(positions) = 2
  /\ 2 * positions[1].houseType.width + edgeSpacing
       = RoadLength - 2 * EndClearance

---------------------------------------------------------------------------
(* C18 *)

\* the length the selected templates take up, with the spacing that a
\* further template would need before it
UsedWithSpacing == SumWidths(tempHouses) + Len(tempHouses) * edgeSpacing

\* a further template of the catalog would still fit behind the selected ones
StillFits(houseType) == UsedWithSpacing + houseType.width <= AvailableLength

\* C18 (as claimed): when the selection loop has stopped, no template of the
\* catalog still fits in the remaining usable length.
C18_SelectionMaximal ==
  pc = "placed" => \A t \in 1..Len(houseTypes) : ~StillFits(houseTypes[t])

\* What holds: when the loop has stopped, some template of the catalog (the
\* one drawn last) does not fit.
C18_SomeTemplateDoesNotFit ==
  pc = "placed" => \E t \in 1..Len(houseTypes) : ~StillFits(houseTypes[t])

---------------------------------------------------------------------------
(* C19: interpolatePositionAtDistance on centerlines with repeated points *)

\* centerlines with zero-length segments at the start, in the middle and at
\* the end, straight and with a turn
InterpolationRoads ==
  { << <<0, 0>>, <<8, 0>> >>,
    << <<0, 0>>, <<0, 0>>, <<8, 0>> >>,
    << <<0, 0>>, <<4, 0>>, <<4, 0>>, <<8, 0>> >>,
    << <<0, 0>>, <<8, 0>>, <<8, 0>> >>,
    << <<0, 0>>, <<0, 0>>, <<0, 0>>, <<5, 0>>, <<5, -3>> >>,
    << <<2, 1>>, <<2, 5>>, <<2, 5>>, <<-1, 5>>, <<-1, 5>>, <<-1, 5>> >>,
    << <<0, 0>>, <<0, 0>> >> }

\* a generator whose only road has one of these centerlines
InitInterpolation ==
  /\ \E coordinates \in InterpolationRoads :
        /\ roads = <<LineRoad(coordinates, "")>>
        /\ allRoadGeometries = <<LineRoad(coordinates, "")>>
  /\ houseTypes = <<>>
  /\ generatedHouses = <<>>
  /\ edgeSpacing = DefaultEdgeSpacing
  /\ roadOffset = DefaultRoadOffset
  /\ pc = "idle"
  /\ roadIndex = 0
  /\ side = "left"
  /\ tempHouses = <<>>
  /\ totalWidthNeeded = 0
  /\ positions = <<>>
  /\ houses = <<>>
  /\ calls = 0
  /\ lastCall = NoCall
  /\ replay = NoReplay
  /\ loading = NotLoading
  /\ InitWatcher

\* interpolatePositionAtDistance(coordinates, cumulativeDistances,
\* targetDistance) is applied to the road; positions holds what it returns
InterpolateAt(targetDistance) ==
  /\ positions' =
       <<InterpolatePositionAtDistance(CurrentRoad.coordinates,
           CumulativeDistances(CurrentRoad.coordinates), targetDistance)
         @@ [distance |-> targetDistance]>>
  /\ pc' = "placed"
  /\ UNCHANGED <<houseTypes, roads, allRoadGeometries, generatedHouses,
                 edgeSpacing, roadOffset, roadIndex, side, tempHouses,
                 totalWidthNeeded, houses, calls, lastCall, replay, loading, wvars>>

NextInterpolation ==
  \E targetDistance \in 0..MaxRoadLength : InterpolateAt(targetDistance)

SpecInterpolation == InitInterpolation /\ [][NextInterpolation]_vars

\* C19: for every target distance d with 0 < d <= roadLength the selected
\* segment has cumulative[seg] < d <= cumulative[seg + 1], so it has a
\* positive length, the returned bearing is the bearing of that segment, and
\* the returned point lies on it at arc length d.
C19_SelectsSegmentOfPositiveLength ==
  (pc = "placed" /\ 0 < positions[1].distance
                 /\ positions[1].distance <= RoadLength) =>
    LET p == positions[1]
        coordinates == CurrentRoad.coordinates
        cum == CumulativeDistances(coordinates)
        seg == SegmentIndex(cum, p.distance)
    IN  /\ p.ok
        /\ seg \in 1..(Len(coordinates) - 1)
        /\ cum[seg] < p.distance
        /\ p.distance <= cum[seg + 1]
        /\ coordinates[seg] # coordinates[seg + 1]
        /\ p.bearing = Bearing(coordinates[seg], coordinates[seg + 1])
        /\ cum[seg] + Distance(coordinates[seg], <<p.lng, p.lat>>) = p.distance
        /\ p.distance + Distance(<<p.lng, p.lat>>, coordinates[seg + 1])
             = cum[seg + 1]

\* a position was interpolated on a segment that follows a zero-length
\* segment, at the very end of that segment
C19_Witness ==
  /\ pc = "placed"
  /\ positions[1].ok
  /\ LET coordinates == CurrentRoad.coordinates
         cum == CumulativeDistances(coordinates)
         seg == SegmentIndex(cum, positions[1].distance)
     IN  /\ seg >= 2
         /\ coordinates[seg - 1] = coordinates[seg]
         /\ positions[1].distance = cum[seg + 1]
         /\ positions[1].bearing = -90

---------------------------------------------------------------------------
(* C20: the selection loop under every edgeSpacing the options can install *)

\* options.edgeSpacing || 5 installs any value but a falsy one: 0 gives the
\* default, a negative number is installed
AnySpacingOptions ==
  { NoOptions,
    [edgeSpacing |-> Given(0), roadOffset |-> Given(0)],
    [edgeSpacing |-> Given(1), roadOffset |-> Given(3)],
    [edgeSpacing |-> Given(-5), roadOffset |-> NotGiven] }
AnySpacingRoads == { <<RoadA(10, 0, "")>>, <<RoadA(MaxRoadLength, 0, "")>> }
AnySpacingFileSets ==
  { <<Failed, Failed, Failed>>,
    <<LineFile(OpenRect(10, 3, 2, 4)), PolyFile(ClosedRect(0, 0, 4, 6)),
      LineFile(<< <<3, 7>> >>)>> }

\* the one generation of a behaviour
GenerateOnce(roadFeatures, options) ==
  /\ calls = 0
  /\ GenerateHousesAlongRoads(roadFeatures, options)
  /\ Called("generateHousesAlongRoads", options)
  /\ UNCHANGED <<replay, loading, wvars>>

\* an iteration that selects, followed for the first MaxSelected templates
SelectHouseUpTo(houseTypeIndex) ==
  /\ Len(tempHouses) < MaxSelected
  /\ SelectHouse(houseTypeIndex)
  /\ UNCHANGED hvars

NextAnySpacing ==
  \/ \E roadFeatures \in AnySpacingRoads, options \in AnySpacingOptions :
        GenerateOnce(roadFeatures, options)
  \/ \E files \in AnySpacingFileSets : LoadHouseTypes(files) /\ UNCHANGED hvars
  \/ BeginRoad /\ UNCHANGED hvars
  \/ \E houseTypeIndex \in 1..Len(houseTypes) : SelectHouseUpTo(houseTypeIndex)
  \/ \E houseTypeIndex \in 1..Len(houseTypes) :
        StopAndPlace(houseTypeIndex) /\ UNCHANGED hvars
  \/ NextSide /\ UNCHANGED hvars
  \/ EndRoad /\ UNCHANGED hvars
  \/ FinishGeneration /\ UNCHANGED hvars
  \/ Return /\ UNCHANGED hvars

SpecAnySpacing == Init /\ [][NextAnySpacing]_vars

\* some draw ends the loop now, or some template's selection raises the
\* budget.  When neither is so, every template fits and every selection
\* leaves the budget where it is or lowers it, so every template fits in
\* every later iteration too: no sequence of draws ends the loop.
LoopCanEnd ==
  \/ \E t \in 1..Len(houseTypes) : WontFit(houseTypes[t])
  \/ \E t \in 1..Len(houseTypes) : houseTypes[t].width + edgeSpacing > 0

\* C20 (as claimed): the selection loop terminates for every road length,
\* every catalog and every edgeSpacing generateHousesAlongRoads can install:
\* the loop is never in a state that no sequence of draws leaves.
C20_SelectionLoopCanEnd == pc = "select" => LoopCanEnd

\* What holds: under a positive edgeSpacing every iteration that selects
\* raises the budget by at least edgeSpacing, and a selection needs the
\* budget to be at most the usable length, so the loop ends within
\* availableLength / edgeSpacing + 1 iterations, zero-width templates or not.
C20_PositiveSpacingBoundsLoop ==
  (pc = "select" /\ edgeSpacing > 0) =>
    /\ totalWidthNeeded >= Len(tempHouses) * edgeSpacing
    /\ Len(tempHouses) >= 1 =>
         (Len(tempHouses) - 1) * edgeSpacing <= AvailableLength

\* under a positive edgeSpacing the loop has selected zero-width templates
\* only, and has ended
C20_ZeroWidthLoopEnded ==
  /\ pc = "placed"
  /\ edgeSpacing > 0
  /\ Len(tempHouses) >= 2
  /\ \A k \in 1..Len(tempHouses) : tempHouses[k].width = 0

---------------------------------------------------------------------------
(* C21: a road whose processing throws *)

\* a LineString feature whose geometry has no coordinates array
NoCoordinatesRoad == [gtype |-> "LineString", Layer |-> ""]

BadRoadInputs ==
  { <<RoadA(MaxRoadLength, 0, "")>>,
    <<NoCoordinatesRoad, RoadA(MaxRoadLength, 0, "")>>,
    <<RoadA(MaxRoadLength, 0, ""), NoCoordinatesRoad>>,
    <<OnePointRoad, RoadA(MaxRoadLength, 0, "")>> }
BadRoadFileSets == { <<Failed, Failed, Failed>> }

\* generateHousesAlongRoad, lines 220-221: coordinates.length on a geometry
\* without coordinates throws; nothing between the forEach of line 204 and
\* the caller catches, so generateHouses and generateHousesAlongRoads reject
RoadThrows ==
  /\ pc = "road"
  /\ roadIndex < Len(roads)
  /\ ~HasCoordinates(CurrentRoad)
  /\ pc' = "rejected"
  /\ UNCHANGED <<houseTypes, roads, allRoadGeometries, generatedHouses,
                 edgeSpacing, roadOffset, roadIndex, side, tempHouses,
                 totalWidthNeeded, positions, houses, calls>>

\* the click handler catches the rejection and shows an alert
CatchRejection ==
  /\ pc = "rejected"
  /\ pc' = "idle"
  /\ UNCHANGED <<houseTypes, roads, allRoadGeometries, generatedHouses,
                 edgeSpacing, roadOffset, roadIndex, side, tempHouses,
                 totalWidthNeeded, positions, houses, calls>>

NextBadRoad ==
  \/ \E roadFeatures \in BadRoadInputs :
        /\ GenerateHousesAlongRoads(roadFeatures, NoOptions)
        /\ Called("generateHousesAlongRoads", NoOptions)
        /\ UNCHANGED <<replay, loading, wvars>>
  \/ \E files \in BadRoadFileSets : LoadHouseTypes(files) /\ UNCHANGED hvars
  \/ SkipShortRoad /\ UNCHANGED hvars
  \/ RoadThrows /\ UNCHANGED hvars
  \/ CatchRejection /\ UNCHANGED hvars
  \/ BeginRoad /\ UNCHANGED hvars
  \/ \E houseTypeIndex \in 1..Len(houseTypes) :
        SelectHouse(houseTypeIndex) /\ UNCHANGED hvars
  \/ \E houseTypeIndex \in 1..Len(houseTypes) :
        StopAndPlace(houseTypeIndex) /\ UNCHANGED hvars
  \/ NextSide /\ UNCHANGED hvars
  \/ EndRoad /\ lastCall' = [lastCall EXCEPT !.produced = @ \o houses]
             /\ UNCHANGED <<replay, loading, wvars>>
  \/ FinishGeneration /\ UNCHANGED hvars
  \/ Return /\ UNCHANGED hvars

SpecBadRoad == Init /\ [][NextBadRoad]_vars

\* the generation has gone through every road and returned
Completed == pc = "done" /\ roadIndex = Len(roads)

\* C21 (as claimed): no exception raised for one bad input aborts the whole
\* generation: a call of generateHouses that has ended has completed, having
\* gone through every road, so the houses of all other roads are returned.
C21_GenerationCompletes == pc \in {"done", "rejected"} => Completed

\* What holds: a generation is rejected only at a road without coordinates,
\* and the short road of line 221 is skipped without ending the generation.
C21_RejectedOnlyAtRoadWithoutCoordinates ==
  /\ pc = "rejected" =>
       (roadIndex < Len(roads) /\ ~HasCoordinates(CurrentRoad))
  /\ pc = "done" => Completed

\* the houses of a road generated before the rejection are not returned
C21_HousesLostInRejection ==
  /\ pc = "rejected"
  /\ Len(generatedHouses) > 0
  /\ Len(roads) = 2

---------------------------------------------------------------------------
(* C22: the local frame of the catalog's outlines *)

\* the outline is centred on local X = 0 and its front edge is at local Y = 0
Normalized(houseType) ==
  /\ SeqMin(houseType.geometry, 1) = -SeqMax(houseType.geometry, 1)
  /\ SeqMin(houseType.geometry, 2) = 0

\* C22 (as claimed): every template of the catalog, parsed from GeoJSON or
\* created by createFallbackHouse, has its horizontal extent centred on local
\* X = 0 (minX = -maxX) and its minimum Y at 0.
C22_CatalogNormalized ==
  \A t \in 1..Len(houseTypes) : Normalized(houseTypes[t])

\* What holds: every template that is not the fallback of its type is
\* normalized, and the fallback has its front edge at Y = 0 and spans
\* 0..width in X.
C22_ParsedNormalized ==
  \A t \in 1..Len(houseTypes) :
     IF houseTypes[t] = CreateFallbackHouse(t)
     THEN /\ SeqMin(houseTypes[t].geometry, 1) = 0
          /\ SeqMax(houseTypes[t].geometry, 1) = houseTypes[t].width
          /\ SeqMin(houseTypes[t].geometry, 2) = 0
     ELSE Normalized(houseTypes[t])

\* a catalog with a parsed template and a fallback has been loaded
C22_MixedCatalogLoaded ==
  /\ Len(houseTypes) = 3
  /\ \E t \in 1..3 : houseTypes[t] = CreateFallbackHouse(t)
  /\ \E t \in 1..3 : houseTypes[t] # CreateFallbackHouse(t)
                       /\ houseTypes[t].width > 0

---------------------------------------------------------------------------
(* C23: footprints of one side under a catalog with a wide template *)

\* parsed outlines of width 2 and 14 and the fallback of width 6
WideFileSets ==
  { <<LineFile(OpenRect(10, 3, 2, 4)), PolyFile(ClosedRect(0, 0, 14, 6)),
      Failed>> }
\* a road with room for the narrow and the wide template side by side
WideRoads == { <<RoadA(MaxRoadLength + 10, 0, "")>>,
               <<RoadA(MaxRoadLength, 0, "")>> }

NextWideCatalog ==
  \/ \E roadFeatures \in WideRoads : GenerateOnce(roadFeatures, NoOptions)
  \/ \E files \in WideFileSets : LoadHouseTypes(files) /\ UNCHANGED hvars
  \/ BeginRoad /\ UNCHANGED hvars
  \/ \E houseTypeIndex \in 1..Len(houseTypes) :
        SelectHouse(houseTypeIndex) /\ UNCHANGED hvars
  \/ \E houseTypeIndex \in 1..Len(houseTypes) :
        StopAndPlace(houseTypeIndex) /\ UNCHANGED hvars
  \/ NextSide /\ UNCHANGED hvars
  \/ EndRoad /\ UNCHANGED hvars
  \/ FinishGeneration /\ UNCHANGED hvars
  \/ Return /\ UNCHANGED hvars

SpecWideCatalog == Init /\ [][NextWideCatalog]_vars

\* the world footprints of slots p and q, p before q, are apart along the road
FootprintsDisjoint(p, q) ==
  GeometryMaxAlong(CurrentRoad, HouseOfSlot(p).geometry)
    < GeometryMinAlong(CurrentRoad, HouseOfSlot(q).geometry)

\* C23 (as claimed): no two footprints placed on the same side of the same
\* road overlap: the along-road extents of the footprints of consecutive
\* slots are disjoint, for every catalog of positive-width templates and
\* every draw order.
C23_ConsecutiveFootprintsDisjoint ==
  pc = "placed" =>
    \A k \in 1..(Len(positions) - 1) :
       (positions[k].houseType.width > 0
        /\ positions[k + 1].houseType.width > 0)
       => FootprintsDisjoint(positions[k], positions[k + 1])

\* What holds: two consecutive normalized templates are apart when the next
\* one is less than 2 * edgeSpacing wider than the one before it (the gap is
\* edgeSpacing + (width_i - width_{i+1}) / 2).
C23_DisjointUnlessNextMuchWider ==
  pc = "placed" =>
    \A k \in 1..(Len(positions) - 1) :
       (/\ Normalized(positions[k].houseType)
        /\ Normalized(positions[k + 1].houseType)
        /\ positions[k].houseType.width > 0
        /\ positions[k + 1].houseType.width
             < positions[k].houseType.width + 2 * edgeSpacing)
       => FootprintsDisjoint(positions[k], positions[k + 1])

\* the narrow parsed template is followed by the wide one, and the two
\* footprints overlap by a metre
C23_WideAfterNarrowOverlaps ==
  /\ pc = "placed"
  /\ Len(positions) = 2
  /\ positions[1].houseType.width = 2
  /\ positions[2].houseType.width = 14
  /\ GeometryMaxAlong(CurrentRoad, HouseOfSlot(positions[1]).geometry) = 6
  /\ GeometryMinAlong(CurrentRoad, HouseOfSlot(positions[2]).geometry) = 5

---------------------------------------------------------------------------
(* C24: the values the layout runs with *)

\* the value a configuration entry stands for: the one given, or the default
\* when none is given
ConfiguredValue(opt, dflt) == IF opt.given THEN opt.value ELSE dflt

\* C24 (as claimed): during a call of generateHousesAlongRoads edgeSpacing
\* and roadOffset equal the values given in its options, and are 5 and 10
\* only when the option is not supplied; the usable length leaves the end
\* clearance of 5 m free at each end of the road.
C24_ConfiguredValuesUsed ==
  (InGeneration /\ lastCall.kind = "generateHousesAlongRoads") =>
    /\ edgeSpacing = ConfiguredValue(lastCall.options.edgeSpacing,
                                     DefaultEdgeSpacing)
    /\ roadOffset = ConfiguredValue(lastCall.options.roadOffset,
                                    DefaultRoadOffset)
    /\ pc \in {"select", "placed"} =>
         AvailableLength = RoadLength - 2 * EndClearance

\* What holds: a given value is used unless it is 0, which the || of lines
\* 604-605 replaces by the default like a missing one.
C24_TruthyValuesUsed ==
  (InGeneration /\ lastCall.kind = "generateHousesAlongRoads") =>
    /\ edgeSpacing = OrDefault(lastCall.options.edgeSpacing, DefaultEdgeSpacing)
    /\ roadOffset = OrDefault(lastCall.options.roadOffset, DefaultRoadOffset)
    /\ pc \in {"select", "placed"} =>
         AvailableLength = RoadLength - 2 * EndClearance

\* houses have been placed 10 m from the road with 5 m between them under
\* options that ask for 0 and 0
C24_ZeroOptionsReplaced ==
  /\ pc = "placed"
  /\ lastCall.options.edgeSpacing = Given(0)
  /\ lastCall.options.roadOffset = Given(0)
  /\ edgeSpacing = DefaultEdgeSpacing
  /\ roadOffset = DefaultRoadOffset
  /\ Len(houses) > 0

---------------------------------------------------------------------------
(* C25: the road left out of the collision test *)

\* the slot's house is not among the houses kept for the side
Discarded(p) ==
  \A n \in 1..Len(SideHouses) : SideHouses[n].houseIndex[2] # p.index

\* C25: after setRoads, roads and allRoadGeometries hold the same features
\* at the same indices, so the index left out of the collision test is the
\* road the house is placed along: a house whose polygon can be built is
\* discarded exactly when it lies within the buffer of some other road, and
\* never for the buffer of its own road.
C25_OnlyOtherRoadsDiscard ==
  /\ roads = allRoadGeometries
  /\ pc = "placed" =>
       \A k \in 1..Len(positions) :
          LET h == HouseOfSlot(positions[k])
          IN  Discarded(positions[k])
                <=> (/\ ~HousePolygonThrows(h)
                     /\ InOtherRoadBuffer(h.geometry, roadIndex))

\* on a side of a road with a second road across it, a house inside the
\* buffer of its own road is kept and another slot is discarded
C25_Witness ==
  /\ pc = "placed"
  /\ Len(allRoadGeometries) = 2
  /\ \E n \in 1..Len(SideHouses) :
        InBufferOf(SideHouses[n].geometry, CurrentRoad)
  /\ \E k \in 1..Len(positions) : Discarded(positions[k])

---------------------------------------------------------------------------
(* C26: two clicks on Generate Homes, the second during the first's load *)

\* what the handler passes to generateHousesAlongRoads (part_001, 2288-2301)
HandlerRoads == <<RoadA(MaxRoadLength, 0, "")>>
HandlerOptions == [edgeSpacing |-> Given(5), roadOffset |-> Given(3)]

\* every fetch fails, so that the catalog is told by its type ids alone
TwoRequestFiles == { Failed }

\* an iteration of invocation k that is not its last; a fetch is answered
\* only between the synchronous runs of generateHouses
LoadIterationBeforeLast(k, file) ==
  /\ pc = "idle"
  /\ loading[k].i \in 0..1
  /\ LoadIteration(k, file)

\* the last iteration of invocation k: the template is pushed, loadHouseTypes
\* returns and the request that awaited it goes on without yielding:
\* generateHouses finds a catalog that is not empty, empties generatedHouses
\* (line 201) and starts on the roads
LastLoadIterationAndGenerate(k, file) ==
  /\ pc = "idle"
  /\ loading[k].i = 2
  /\ houseTypes' = Append(houseTypes, LoadOne(file, 3))
  /\ loading' = [loading EXCEPT ![k].i = 3, ![k].files = Append(@, file)]
  /\ edgeSpacing' = OrDefault(HandlerOptions.edgeSpacing, DefaultEdgeSpacing)
  /\ roadOffset' = OrDefault(HandlerOptions.roadOffset, DefaultRoadOffset)
  /\ roads' = SetRoadsResult(HandlerRoads)
  /\ allRoadGeometries' = SetRoadsResult(HandlerRoads)
  /\ generatedHouses' = <<>>
  /\ roadIndex' = 0
  /\ pc' = "road"
  /\ calls' = calls + 1
  /\ UNCHANGED <<side, tempHouses, totalWidthNeeded, positions, houses,
                 lastCall, replay, wvars>>

\* the second click while the load of the first is awaiting a fetch and has
\* pushed at least one template: window.houseGenerator exists, so the
\* handler calls generateHousesAlongRoads at once, and generateHouses skips
\* the load because the catalog is not empty (line 196)
SecondRequestSkipsLoad ==
  /\ loading[1].i \in 0..2
  /\ loading[2].i = -1
  /\ calls = 0
  /\ Len(houseTypes) > 0
  /\ GenerateHousesAlongRoads(HandlerRoads, HandlerOptions)
  /\ UNCHANGED hvars

NextTwoRequests ==
  \/ StartLoad
  \/ StartLoadFromGenerateHouses /\ pc = "idle"
  \/ \E k \in 1..2, file \in TwoRequestFiles : LoadIterationBeforeLast(k, file)
  \/ \E k \in 1..2, file \in TwoRequestFiles :
        LastLoadIterationAndGenerate(k, file)
  \/ SecondRequestSkipsLoad
  \/ BeginRoad /\ UNCHANGED hvars
  \/ \E houseTypeIndex \in 1..Len(houseTypes) :
        SelectHouse(houseTypeIndex) /\ UNCHANGED hvars
  \/ \E houseTypeIndex \in 1..Len(houseTypes) :
        StopAndPlace(houseTypeIndex) /\ UNCHANGED hvars
  \/ NextSide /\ UNCHANGED hvars
  \/ EndRoad /\ UNCHANGED hvars
  \/ FinishGeneration /\ UNCHANGED hvars
  \/ Return /\ UNCHANGED hvars

SpecTwoRequests == Init /\ [][NextTwoRequests]_vars

\* the catalog holds one entry for each of the three house types
OneEntryPerType ==
  /\ Len(houseTypes) = 3
  /\ \A j \in 1..3 : houseTypes[j].type = j

\* C26 (as claimed): whenever generateHouses draws templates the catalog
\* holds exactly one entry for each of the three house types, under every
\* interleaving of two generate requests of which the second starts while
\* loadHouseTypes of the first is awaiting a fetch.
C26_DrawsFromCatalogOfThree == pc = "select" => OneEntryPerType

\* What holds: the same when no second invocation of loadHouseTypes has
\* started and the load of the first request has completed.
C26_CatalogOfThreeAfterLoneLoad ==
  (pc = "select" /\ loading[1].i = 3 /\ loading[2].i = -1) => OneEntryPerType

\* the second request draws from a catalog that holds one template
C26_DrawsFromPartialCatalog ==
  /\ pc = "select"
  /\ Len(houseTypes) = 1
  /\ loading[1].i = 1

\* a request draws from a catalog that holds the templates of both loads
C26_DrawsFromDoubledCatalog ==
  /\ pc = "select"
  /\ Len(houseTypes) > 3
  /\ \E j \in 2..Len(houseTypes) : houseTypes[j].type = houseTypes[1].type

---------------------------------------------------------------------------
(* C27: a collision test that cannot be evaluated *)

\* the test of house against the road at index i - 1 can be evaluated and
\* finds the house within the road's buffer
TestedAndHit(house, i) ==
  /\ ~RoadLineThrows(allRoadGeometries[i])
  /\ IntersectsBuffer(Append(house.geometry, house.geometry[1]),
                      allRoadGeometries[i].coordinates,
                      BufferMeters(allRoadGeometries[i], DefaultBufferMeters))

\* C27: a house whose polygon cannot be built is reported as not colliding
\* and is placed; a road whose test throws is skipped alone: it discards no
\* house, and every other road but the house's own is still tested and
\* discards the houses within its buffer.
C27_UnevaluatedTestLetsPass ==
  pc = "placed" =>
    \A k \in 1..Len(positions) :
       LET h == HouseOfSlot(positions[k])
           others == {i \in 1..Len(allRoadGeometries) : i - 1 # roadIndex}
       IN  /\ HousePolygonThrows(h) => ~Discarded(positions[k])
           /\ ~HousePolygonThrows(h) =>
                /\ \A i \in others :
                      TestedAndHit(h, i) => Discarded(positions[k])
                /\ Discarded(positions[k]) =>
                      \E i \in others : TestedAndHit(h, i)

\* on one side a house whose polygon cannot be built is kept, and a house
\* is discarded for a road that comes after a road whose line cannot be built
C27_Witness ==
  /\ pc = "placed"
  /\ \E k \in 1..Len(positions) :
        /\ HousePolygonThrows(HouseOfSlot(positions[k]))
        /\ ~Discarded(positions[k])
  /\ \E k \in 1..Len(positions), i \in 1..Len(allRoadGeometries) :
        /\ Discarded(positions[k])
        /\ TestedAndHit(HouseOfSlot(positions[k]), i)
        /\ \E j \in 1..(i - 1) :
              j - 1 # roadIndex /\ RoadLineThrows(allRoadGeometries[j])

---------------------------------------------------------------------------
(* C28, C29: the analysis-file watcher (src/unnamed/part_003) *)

\* faulty variant: a run is started whether or not one is in progress
RunAnnotateLatestUnguarded(t) ==
  /\ running' = TRUE
  /\ proc' = proc + 1
  /\ trigger' = t
  /\ UNCHANGED queued

\* runAnnotateLatest(trigger), lines 14-21: during a run the trigger is
\* queued, otherwise a child process is spawned
RunAnnotateLatest(t) ==
  IF running
  THEN /\ queued' = TRUE
       /\ UNCHANGED <<running, proc, trigger>>
  ELSE /\ running' = TRUE
       /\ proc' = proc + 1
       /\ trigger' = t
       /\ UNCHANGED queued

\* the add and change handlers of the watcher, lines 38-45
WatcherEvent(t) ==
  /\ events < MaxEvents
  /\ events' = events + 1
  /\ RunAnnotateLatest(t)
  /\ UNCHANGED timers

\* faulty variant: the exit handler forgets the queued trigger
ProcOnExitNoRerun ==
  /\ proc > 0
  /\ proc' = proc - 1
  /\ running' = FALSE
  /\ queued' = FALSE
  /\ UNCHANGED <<timers, trigger, events>>

\* the exit handler of the child process, lines 22-27: a queued trigger
\* arms the 50 ms timer
ProcOnExit ==
  /\ proc > 0
  /\ proc' = proc - 1
  /\ running' = FALSE
  /\ IF queued
     THEN queued' = FALSE /\ timers' = timers + 1
     ELSE UNCHANGED <<queued, timers>>
  /\ UNCHANGED <<trigger, events>>

\* the callback of setTimeout, line 26
TimerCallback ==
  /\ timers > 0
  /\ timers' = timers - 1
  /\ RunAnnotateLatest("queued")
  /\ UNCHANGED events

\* the steps of the watcher; owed is set by an event that arrives during a
\* run and cleared by the start of a run
EventArrives ==
  /\ \E t \in {"add", "change"} : WatcherEvent(t)
  /\ owed' = running
  /\ UNCHANGED gvars
ChildExits == ProcOnExit /\ UNCHANGED <<owed, gvars>>
TimerFires ==
  /\ TimerCallback
  /\ owed' = (owed /\ running)
  /\ UNCHANGED gvars

NextWatcher == EventArrives \/ ChildExits \/ TimerFires

\* every child process exits, and the event loop runs every timer
SpecWatcher ==
  /\ Init
  /\ [][NextWatcher]_vars
  /\ WF_vars(ChildExits)
  /\ WF_vars(TimerFires)

\* C28: in the watcher at most one annotate-latest child process is running
\* at any time, under every interleaving of add/change events, child exits
\* and timer callbacks.
C28_AtMostOneChild == proc <= 1 /\ (running <=> proc = 1)

\* a run is in progress with a trigger queued behind it while a timer of an
\* earlier queued trigger is still pending
C28_Witness ==
  /\ proc = 1
  /\ running
  /\ queued
  /\ timers > 0

\* nothing in progress, nothing queued, no timer pending
WatcherIdle == ~running /\ ~queued /\ proc = 0 /\ timers = 0

\* C29: no trigger is lost: an add/change event that arrives during a run
\* is eventually followed by the start of a run, given that every child
\* process exits; and once the events have stopped the watcher becomes idle
\* for good, with running = false and queued = false.
C29_NoTriggerLost == (owed ~> ~owed) /\ <>[]WatcherIdle

\* the run in progress was started by the timer for an event that had
\* arrived during the run before it
C29_Witness ==
  /\ running
  /\ trigger = "queued"
  /\ ~owed
  /\ events >= 2

---------------------------------------------------------------------------
(* C30: the ids of one generation over two roads that both get houses *)

\* two parallel roads 100 m apart and a short road across the first
TwoRoadInputs ==
  { <<RoadA(MaxRoadLength, 0, ""), CrossB(""), RoadA(MaxRoadLength, 100, "")>> }
TwoRoadFileSets ==
  { <<LineFile(OpenRect(10, 3, 2, 4)), PolyFile(ClosedRect(0, 0, 4, 6)),
      Failed>> }

NextTwoRoads ==
  \/ \E roadFeatures \in TwoRoadInputs :
        GenerateOnce(roadFeatures, HandlerOptions)
  \/ \E files \in TwoRoadFileSets : LoadHouseTypes(files) /\ UNCHANGED hvars
  \/ BeginRoad /\ UNCHANGED hvars
  \/ \E houseTypeIndex \in 1..Len(houseTypes) :
        SelectHouse(houseTypeIndex) /\ UNCHANGED hvars
  \/ \E houseTypeIndex \in 1..Len(houseTypes) :
        StopAndPlace(houseTypeIndex) /\ UNCHANGED hvars
  \/ NextSide /\ UNCHANGED hvars
  \/ EndRoad /\ UNCHANGED hvars
  \/ FinishGeneration /\ UNCHANGED hvars
  \/ Return /\ UNCHANGED hvars

SpecTwoRoads == Init /\ [][NextTwoRoads]_vars

\* C30: the houses of one generateHouses call have pairwise distinct ids,
\* the id being house_<roadIndex>_<side>_<slotIndex> of the house's road,
\* side and slot, also when slots were discarded for collisions.
C30_DistinctIds ==
  \A m, n \in 1..Len(generatedHouses) :
     /\ generatedHouses[m].id
          = <<generatedHouses[m].roadIndex, generatedHouses[m].side,
              generatedHouses[m].houseIndex[2]>>
     /\ m # n => generatedHouses[m].id # generatedHouses[n].id

\* the generation has returned houses of the same side and slot on two
\* roads, and a house of slot 1 on a side whose slot 0 was discarded
C30_Witness ==
  /\ pc = "done"
  /\ \E m, n \in 1..Len(generatedHouses) :
        /\ generatedHouses[m].roadIndex # generatedHouses[n].roadIndex
        /\ generatedHouses[m].houseIndex = generatedHouses[n].houseIndex
  /\ \E m \in 1..Len(generatedHouses) :
        /\ generatedHouses[m].houseIndex[2] = 1
        /\ \A n \in 1..Len(generatedHouses) :
              generatedHouses[n].id
                # <<generatedHouses[m].roadIndex, generatedHouses[m].side, 0>>

====
